---- MODULE Spec2Model ----
(***************************************************************************)
(* SignupComponent (src/app/landingpage/signup/signup.component.ts):       *)
(* the form fields, the per-field validators and the invalid-field list,   *)
(* the privacy error flag, the password visibility flags and the           *)
(* asynchronous registration flow with its two await points.               *)
(*                                                                         *)
(* A JavaScript string is a sequence of one-character strings, so that     *)
(* length, trim(), toLowerCase() and the e-mail pattern are computed.      *)
(***************************************************************************)
EXTENDS Integers, Sequences, FiniteSets, TLC

VARIABLES
    name,                    \* this.name
    email,                   \* this.email
    password,                \* this.password
    passwordConfirm,         \* this.passwordConfirm
    newUserData,             \* this.newUserData
    invalidFields,           \* this.invalidFields (an array)
    privacyAccepted,         \* this.privacyAccepted
    showPrivacyError,        \* this.showPrivacyError
    passwordVisible,         \* this.passwordVisible
    confirmPasswordVisible,  \* this.confirmPasswordVisible
    passwordEntered,         \* this.passwordEntered
    confirmPasswordEntered,  \* this.confirmPasswordEntered
    error,                   \* this.error
    contactList,             \* this.contactService.contactList
    UserLoggedIn,            \* this.authService.UserLoggedIn
    route,                   \* the path last handed to router.navigate
    feedback,                \* the message last handed to feedbackService.show
    pc,                      \* position of each onRegister invocation
    calls,                   \* what each onRegister invocation has done, in order
    atInvoke,                \* the fields as they were when onRegister was invoked
    atResolve,               \* the fields and contact list when register resolved
    lastCheck,               \* outcome of the latest validation check of each field
    op                       \* the operation that produced the current state

formVars == <<name, email, password, passwordConfirm, newUserData>>
validationVars == <<invalidFields, privacyAccepted, showPrivacyError, lastCheck>>
visibilityVars == <<passwordVisible, confirmPasswordVisible,
                    passwordEntered, confirmPasswordEntered>>
serviceVars == <<error, contactList, UserLoggedIn, route, feedback>>
registerVars == <<pc, calls, atInvoke, atResolve>>
vars == <<formVars, validationVars, visibilityVars, serviceVars, registerVars, op>>

----------------------------------------------------------------------------
(* Characters and the string functions the component uses.                 *)

Lower == <<"a","b","c","d","e","f","g","h","i","j","k","l","m",
           "n","o","p","q","r","s","t","u","v","w","x","y","z">>
Upper == <<"A","B","C","D","E","F","G","H","I","J","K","L","M",
           "N","O","P","Q","R","S","T","U","V","W","X","Y","Z">>
Digits == {"0","1","2","3","4","5","6","7","8","9"}
Letters == {Lower[k] : k \in 1..Len(Lower)} \cup {Upper[k] : k \in 1..Len(Upper)}
Whitespace == {" ", "\t", "\n", "\r", "\f"}

\* String.prototype.trim
RECURSIVE TrimStart(_)
TrimStart(s) ==
    IF s = <<>> THEN s
    ELSE IF Head(s) \in Whitespace THEN TrimStart(Tail(s)) ELSE s

RECURSIVE TrimEnd(_)
TrimEnd(s) ==
    IF s = <<>> THEN s
    ELSE IF s[Len(s)] \in Whitespace THEN TrimEnd(SubSeq(s, 1, Len(s) - 1)) ELSE s

Trim(s) == TrimEnd(TrimStart(s))

\* String.prototype.toLowerCase
LowerOf(c) ==
    IF \E k \in 1..Len(Upper) : Upper[k] = c
    THEN Lower[CHOOSE k \in 1..Len(Upper) : Upper[k] = c]
    ELSE c

ToLowerCase(s) == [k \in 1..Len(s) |-> LowerOf(s[k])]

\* /^[a-zA-Z0-9._%+-]+@[a-zA-Z0-9.-]+\.[a-zA-Z]{2,}$/
MinTldLength == 2
LocalChars == Letters \cup Digits \cup {".", "_", "%", "+", "-"}
DomainChars == Letters \cup Digits \cup {".", "-"}

EmailRegexTest(s) ==
    \E at \in 1..Len(s), dot \in 1..Len(s) :
        /\ at >= 2
        /\ \A k \in 1..(at - 1) : s[k] \in LocalChars
        /\ s[at] = "@"
        /\ dot >= at + 2
        /\ \A k \in (at + 1)..(dot - 1) : s[k] \in DomainChars
        /\ s[dot] = "."
        /\ Len(s) - dot >= MinTldLength
        /\ \A k \in (dot + 1)..Len(s) : s[k] \in Letters

----------------------------------------------------------------------------
(* Values typed into the form.                                             *)

MinNameLength == 2
MinPasswordLength == 6

Rep(n, c) == [k \in 1..n |-> c]

NameInputs == { <<" ", "a", " ">>, <<"a", "b">> }

EmailInputs ==
    { <<"u", "@", "d", ".", "t", "l">>,
      <<"u", "@", "d">>,
      <<" ", "U", "@", "d", ".", "t", "l", " ">> }

PasswordInputs ==
    { Rep(MinPasswordLength - 1, "a"),
      Rep(MinPasswordLength, "a"),
      Append(Rep(MinPasswordLength - 1, "a"), "b") }

Fields == {"name", "email", "password", "confirmPassword"}
PasswordFields == {"password", "confirmPassword"}

----------------------------------------------------------------------------
(* Validation.                                                             *)

Includes(fields, fieldName) == \E k \in 1..Len(fields) : fields[k] = fieldName

Without(fields, fieldName) == SelectSeq(fields, LAMBDA f : f # fieldName)

\* addFieldIfInvalid without the includes() test
addFieldIfInvalidNoIncludes(fields, condition, fieldName) ==
    IF condition THEN Append(fields, fieldName) ELSE Without(fields, fieldName)

\* the closure addFieldIfInvalid of validateForm
addFieldIfInvalid(fields, condition, fieldName) ==
    IF condition /\ ~Includes(fields, fieldName)
    THEN Append(fields, fieldName)
    ELSE IF ~condition THEN Without(fields, fieldName) ELSE fields

\* the conditions the four validators hand to addFieldIfInvalid
nameIsInvalid == name = <<>> \/ Len(Trim(name)) < MinNameLength

\* validateMail testing the value as typed
mailIsInvalidUntrimmed == email = <<>> \/ ~EmailRegexTest(email)

mailIsInvalid ==
    LET trimmed == ToLowerCase(Trim(email))
    IN  trimmed = <<>> \/ ~EmailRegexTest(trimmed)

passwordIsInvalid == password = <<>> \/ Len(password) < MinPasswordLength

confirmedPasswordIsInvalid == passwordConfirm # password

isInvalid(field) ==
    CASE field = "name" -> nameIsInvalid
      [] field = "email" -> mailIsInvalid
      [] field = "password" -> passwordIsInvalid
      [] field = "confirmPassword" -> confirmedPasswordIsInvalid

\* validatePassword re-validates the confirmation when this holds
revalidatesConfirmation == newUserData.confirmPassword # <<>>

\* the fields validateForm(field) checks, in the order it checks them:
\* validatePassword checks the password and then, through a nested
\* validateForm('confirmPassword'), the confirmation
checkedBy(field) ==
    IF field = "password" /\ revalidatesConfirmation
    THEN <<"password", "confirmPassword">>
    ELSE <<field>>

RECURSIVE validateFields(_, _)
validateFields(fields, toCheck) ==
    IF toCheck = <<>> THEN fields
    ELSE validateFields(
             addFieldIfInvalid(fields, isInvalid(Head(toCheck)), Head(toCheck)),
             Tail(toCheck))

isFormValid ==
    /\ Len(Trim(name)) >= MinNameLength
    /\ EmailRegexTest(email)
    /\ Len(password) >= MinPasswordLength
    /\ Len(passwordConfirm) >= MinPasswordLength

\* the value autoValidatePrivacyIfReady stores in showPrivacyError; it is the
\* last statement of validateForm, nested or not, so the value that stays is
\* the one computed from the final invalidFields
autoValidatePrivacyIfReady(fields) ==
    LET allInputsValid == Len(fields) = 0 /\ isFormValid
    IN  allInputsValid /\ ~privacyAccepted

----------------------------------------------------------------------------
(* Initial state: the field initialisers of the class.                     *)

MaxInvocations == 2
Invocations == 1..MaxInvocations

None == [none |-> TRUE]

Init ==
    /\ name = <<>>
    /\ email = <<>>
    /\ password = <<>>
    /\ passwordConfirm = <<>>
    /\ newUserData = [name |-> <<>>, email |-> <<>>,
                      password |-> <<>>, confirmPassword |-> <<>>]
    /\ invalidFields = <<>>
    /\ privacyAccepted = FALSE
    /\ showPrivacyError = FALSE
    /\ passwordVisible = FALSE
    /\ confirmPasswordVisible = FALSE
    /\ passwordEntered = FALSE
    /\ confirmPasswordEntered = FALSE
    /\ error = ""
    /\ contactList = <<>>
    /\ UserLoggedIn = None
    /\ route = None
    /\ feedback = None
    /\ pc = [i \in Invocations |-> "idle"]
    /\ calls = [i \in Invocations |-> <<>>]
    /\ atInvoke = [i \in Invocations |-> None]
    /\ atResolve = [i \in Invocations |-> None]
    /\ lastCheck = [f \in Fields |-> "none"]
    /\ op = [name |-> "constructor", field |-> ""]

----------------------------------------------------------------------------
(* The user edits a bound form field (two-way binding of the template).    *)

EditName(values) ==
    /\ \E v \in values : name' = v
    /\ op' = [name |-> "edit", field |-> ""]
    /\ UNCHANGED <<email, password, passwordConfirm, newUserData>>
    /\ UNCHANGED <<validationVars, visibilityVars, serviceVars, registerVars>>

EditEmail(values) ==
    /\ \E v \in values : email' = v
    /\ op' = [name |-> "edit", field |-> ""]
    /\ UNCHANGED <<name, password, passwordConfirm, newUserData>>
    /\ UNCHANGED <<validationVars, visibilityVars, serviceVars, registerVars>>

EditPassword(values) ==
    /\ \E v \in values : password' = v
    /\ op' = [name |-> "edit", field |-> ""]
    /\ UNCHANGED <<name, email, passwordConfirm, newUserData>>
    /\ UNCHANGED <<validationVars, visibilityVars, serviceVars, registerVars>>

EditPasswordConfirm(values) ==
    /\ \E v \in values : passwordConfirm' = v
    /\ op' = [name |-> "edit", field |-> ""]
    /\ UNCHANGED <<name, email, password, newUserData>>
    /\ UNCHANGED <<validationVars, visibilityVars, serviceVars, registerVars>>

EditNewUserDataConfirmPassword(values) ==
    /\ \E v \in values : newUserData' = [newUserData EXCEPT !.confirmPassword = v]
    /\ op' = [name |-> "edit", field |-> ""]
    /\ UNCHANGED <<name, email, password, passwordConfirm>>
    /\ UNCHANGED <<validationVars, visibilityVars, serviceVars, registerVars>>

EditPrivacyAccepted ==
    /\ privacyAccepted' = ~privacyAccepted
    /\ op' = [name |-> "edit", field |-> ""]
    /\ UNCHANGED <<invalidFields, showPrivacyError, lastCheck>>
    /\ UNCHANGED <<formVars, visibilityVars, serviceVars, registerVars>>

----------------------------------------------------------------------------
(* validateForm(field) and validatePrivacy().                              *)

checkOutcome(field) == IF isInvalid(field) THEN "invalid" ELSE "valid"

validateForm(field) ==
    LET checked == checkedBy(field)
        fields == validateFields(invalidFields, checked)
    IN  /\ invalidFields' = fields
        /\ showPrivacyError' = autoValidatePrivacyIfReady(fields)
        /\ lastCheck' = [f \in Fields |->
                            IF Includes(checked, f) THEN checkOutcome(f)
                            ELSE lastCheck[f]]
        /\ op' = [name |-> "validateForm", field |-> field]
        /\ UNCHANGED privacyAccepted
        /\ UNCHANGED <<formVars, visibilityVars, serviceVars, registerVars>>

validatePrivacy ==
    /\ showPrivacyError' = autoValidatePrivacyIfReady(invalidFields)
    /\ op' = [name |-> "validatePrivacy", field |-> ""]
    /\ UNCHANGED <<invalidFields, privacyAccepted, lastCheck>>
    /\ UNCHANGED <<formVars, visibilityVars, serviceVars, registerVars>>

----------------------------------------------------------------------------
(* onPasswordInput(field) and togglePasswordVisibility(field).             *)

\* onPasswordInput without the visibility reset
onPasswordInputKeepsVisible(field) ==
    /\ IF field = "password"
       THEN /\ passwordEntered' = (Len(password) > 0)
            /\ UNCHANGED <<passwordVisible, confirmPasswordEntered,
                           confirmPasswordVisible>>
       ELSE /\ confirmPasswordEntered' = (Len(passwordConfirm) > 0)
            /\ UNCHANGED <<confirmPasswordVisible, passwordEntered, passwordVisible>>
    /\ op' = [name |-> "onPasswordInput", field |-> field]
    /\ UNCHANGED <<formVars, validationVars, serviceVars, registerVars>>

onPasswordInput(field) ==
    /\ IF field = "password"
       THEN /\ passwordEntered' = (Len(password) > 0)
            /\ passwordVisible' = IF Len(password) > 0 THEN passwordVisible ELSE FALSE
            /\ UNCHANGED <<confirmPasswordEntered, confirmPasswordVisible>>
       ELSE /\ confirmPasswordEntered' = (Len(passwordConfirm) > 0)
            /\ confirmPasswordVisible' =
                   IF Len(passwordConfirm) > 0 THEN confirmPasswordVisible ELSE FALSE
            /\ UNCHANGED <<passwordEntered, passwordVisible>>
    /\ op' = [name |-> "onPasswordInput", field |-> field]
    /\ UNCHANGED <<formVars, validationVars, serviceVars, registerVars>>

togglePasswordVisibility(field) ==
    /\ IF field = "password" /\ passwordEntered
       THEN /\ passwordVisible' = ~passwordVisible
            /\ UNCHANGED confirmPasswordVisible
       ELSE IF field = "confirmPassword" /\ confirmPasswordEntered
       THEN /\ confirmPasswordVisible' = ~confirmPasswordVisible
            /\ UNCHANGED passwordVisible
       ELSE UNCHANGED <<passwordVisible, confirmPasswordVisible>>
    /\ op' = [name |-> "togglePasswordVisibility", field |-> field]
    /\ UNCHANGED <<passwordEntered, confirmPasswordEntered>>
    /\ UNCHANGED <<formVars, validationVars, serviceVars, registerVars>>

----------------------------------------------------------------------------
(* onRegister(): an async function.  It runs up to its first await, is     *)
(* resumed when authService.register settles, runs up to its second await  *)
(* and is resumed when contactService.addContact settles.  Between two     *)
(* steps of one invocation any other handler may run.                      *)

ErrorMessages == {"auth/email-already-in-use"}
ContactErrorMessages == {"permission-denied"}

Event(opName) == [op |-> opName]

\* onRegister without its guard
passwordsMatchUnchecked == TRUE

\* the guard of onRegister
passwordsMatch == password = passwordConfirm

\* the argument list of authService.register
registerCall ==
    [op |-> "register", email |-> email, password |-> password, name |-> name]

\* checkIfMailinUseInContact comparing the wrong property
checkIfMailinUseInContactByName ==
    \E k \in 1..Len(contactList) : contactList[k].name = email

\* checkIfMailinUseInContact()
checkIfMailinUseInContact ==
    \E k \in 1..Len(contactList) : contactList[k].email = email

\* the record handed to contactService.addContact
newContact == [name |-> name, email |-> email, phone |-> "Not existing yet"]

\* AuthService.getUsername: not part of the component, an opaque value
getUsername(mail) == [usernameOf |-> mail]

\* the success notice shown before the navigation
onSuccessNoticeFirst ==
    << [op |-> "setUserLoggedIn", value |-> getUsername(email)],
       [op |-> "show", message |-> "Registration successful"],
       [op |-> "navigate", path |-> <<"/login">>] >>

\* the statements after the awaits, in program order
onSuccess ==
    << [op |-> "setUserLoggedIn", value |-> getUsername(email)],
       [op |-> "navigate", path |-> <<"/login">>],
       [op |-> "show", message |-> "Registration successful"] >>

\* a catch block that shows a fixed text
caughtErrorGeneric(message) == "Registration failed"

\* the value the catch block stores in this.error
caughtError(message) == message

\* the component's part of the start of onRegister
onRegister(i) ==
    /\ pc[i] = "idle"
    /\ atInvoke' = [atInvoke EXCEPT ![i] =
                       [password |-> password, passwordConfirm |-> passwordConfirm]]
    /\ IF passwordsMatch
       THEN /\ calls' = [calls EXCEPT ![i] = <<registerCall>>]
            /\ pc' = [pc EXCEPT ![i] = "awaitRegister"]
       ELSE /\ pc' = [pc EXCEPT ![i] = "done"]
            /\ UNCHANGED calls
    /\ op' = [name |-> "onRegister", field |-> ""]
    /\ UNCHANGED <<atResolve, formVars, validationVars, visibilityVars, serviceVars>>

EventOf(events, opName) ==
    events[CHOOSE k \in 1..Len(events) : events[k].op = opName]

\* the effects of the success path on the collaborators
succeed(i, before) ==
    /\ calls' = [calls EXCEPT ![i] = @ \o before \o onSuccess]
    /\ UserLoggedIn' = EventOf(onSuccess, "setUserLoggedIn").value
    /\ route' = EventOf(onSuccess, "navigate").path
    /\ feedback' = EventOf(onSuccess, "show").message
    /\ pc' = [pc EXCEPT ![i] = "done"]
    /\ UNCHANGED <<error, contactList>>

\* the catch block
fail(i, settled, message) ==
    /\ error' = caughtError(message)
    /\ calls' = [calls EXCEPT ![i] =
                    @ \o << [op |-> settled, message |-> message],
                            [op |-> "setError", message |-> caughtError(message)] >>]
    /\ pc' = [pc EXCEPT ![i] = "done"]
    /\ UNCHANGED <<contactList, UserLoggedIn, route, feedback>>

\* register resolved: lines 123-132 up to the second await
registerResolved(i) ==
    /\ pc[i] = "awaitRegister"
    /\ atResolve' = [atResolve EXCEPT ![i] =
                        [email |-> email, contactList |-> contactList]]
    /\ IF ~checkIfMailinUseInContact
       THEN /\ calls' = [calls EXCEPT ![i] =
                            @ \o << Event("registerResolved"),
                                    [op |-> "addContact", contact |-> newContact] >>]
            /\ pc' = [pc EXCEPT ![i] = "awaitAddContact"]
            /\ UNCHANGED serviceVars
       ELSE succeed(i, << Event("registerResolved") >>)
    /\ op' = [name |-> "onRegister", field |-> ""]
    /\ UNCHANGED <<atInvoke, formVars, validationVars, visibilityVars>>

\* register threw
registerRejected(i) ==
    /\ pc[i] = "awaitRegister"
    /\ \E message \in ErrorMessages : fail(i, "registerRejected", message)
    /\ op' = [name |-> "onRegister", field |-> ""]
    /\ UNCHANGED <<atInvoke, atResolve, formVars, validationVars, visibilityVars>>

\* addContact resolved: lines 130-132
addContactResolved(i) ==
    /\ pc[i] = "awaitAddContact"
    /\ succeed(i, << Event("addContactResolved") >>)
    /\ op' = [name |-> "onRegister", field |-> ""]
    /\ UNCHANGED <<atInvoke, atResolve, formVars, validationVars, visibilityVars>>

\* addContact threw
addContactRejected(i) ==
    /\ pc[i] = "awaitAddContact"
    /\ \E message \in ContactErrorMessages : fail(i, "addContactRejected", message)
    /\ op' = [name |-> "onRegister", field |-> ""]
    /\ UNCHANGED <<atInvoke, atResolve, formVars, validationVars, visibilityVars>>

\* values typed while a registration is under way
RegNameInputs == { <<"a", "b">> }
RegEmailInputs == { <<"u", "@", "d", ".", "t", "l">> }
RegPasswordInputs == { Rep(MinPasswordLength, "a") }

\* the contact service replaces its list when the backend reports a change
ContactLists ==
    { <<>>,
      << [name |-> <<"a", "b">>, email |-> <<"u", "@", "d", ".", "t", "l">>,
          phone |-> "Not existing yet"] >> }

contactListChanged ==
    /\ \E list \in ContactLists \ {contactList} : contactList' = list
    /\ UNCHANGED <<op, error, UserLoggedIn, route, feedback>>
    /\ UNCHANGED <<formVars, validationVars, visibilityVars, registerVars>>

----------------------------------------------------------------------------
(* Specifications.                                                         *)

\* the validators, with the privacy checkbox left as it is
NextForm ==
    \/ EditName(NameInputs)
    \/ EditEmail(EmailInputs)
    \/ EditPassword(PasswordInputs)
    \/ EditPasswordConfirm(PasswordInputs)
    \/ EditNewUserDataConfirmPassword({<<>>, Rep(MinPasswordLength, "a")})
    \/ \E f \in Fields : validateForm(f)
    \/ validatePrivacy

SpecForm == Init /\ [][NextForm]_vars

\* the validators and the privacy checkbox
PrivacyPasswordInputs ==
    { Rep(MinPasswordLength, "a"), Append(Rep(MinPasswordLength - 1, "a"), "b") }

NextPrivacy ==
    \/ EditName(NameInputs)
    \/ EditEmail(EmailInputs)
    \/ EditPassword(PrivacyPasswordInputs)
    \/ EditPasswordConfirm(PrivacyPasswordInputs)
    \/ EditNewUserDataConfirmPassword({<<>>, Rep(MinPasswordLength, "a")})
    \/ EditPrivacyAccepted
    \/ \E f \in Fields : validateForm(f)
    \/ validatePrivacy

SpecPrivacy == Init /\ [][NextPrivacy]_vars

NextVisibility ==
    \/ EditPassword({<<>>} \cup PasswordInputs)
    \/ EditPasswordConfirm({<<>>} \cup PasswordInputs)
    \/ \E f \in PasswordFields : onPasswordInput(f)
    \/ \E f \in PasswordFields : togglePasswordVisibility(f)

SpecVisibility == Init /\ [][NextVisibility]_vars

NextRegister ==
    \/ EditEmail(RegEmailInputs)
    \/ EditPassword(RegPasswordInputs)
    \/ EditPasswordConfirm(RegPasswordInputs)
    \/ contactListChanged
    \/ \E i \in Invocations : onRegister(i)
    \/ \E i \in Invocations : registerResolved(i)
    \/ \E i \in Invocations : registerRejected(i)
    \/ \E i \in Invocations : addContactResolved(i)
    \/ \E i \in Invocations : addContactRejected(i)

SpecRegister == Init /\ [][NextRegister]_vars

NextRegisterEdits ==
    \/ NextRegister
    \/ EditName(RegNameInputs)

SpecRegisterEdits == Init /\ [][NextRegisterEdits]_vars

Next ==
    \/ NextForm
    \/ NextPrivacy
    \/ NextVisibility
    \/ NextRegisterEdits

Spec == Init /\ [][Next]_vars

----------------------------------------------------------------------------
(* Properties of the validators (SpecForm, SpecPrivacy).                   *)

Occurrences(fields, fieldName) ==
    Cardinality({k \in 1..Len(fields) : fields[k] = fieldName})

afterValidateForm(field) == op.name = "validateForm" /\ op.field = field

\* C3: a field name is in invalidFields exactly when the latest validation
\* check of that field (direct, or nested from validatePassword) found it
\* invalid; a field never checked is not in the list; no name occurs twice.
C3_InvalidFieldsTrackLastCheck ==
    \A f \in Fields :
        /\ Includes(invalidFields, f) <=> lastCheck[f] = "invalid"
        /\ lastCheck[f] = "none" => ~Includes(invalidFields, f)
        /\ Occurrences(invalidFields, f) <= 1

\* a nested re-validation cleared the confirmation while the password and the
\* name stay listed
C3_Witness ==
    /\ afterValidateForm("password")
    /\ revalidatesConfirmation
    /\ lastCheck["confirmPassword"] = "valid"
    /\ lastCheck["password"] = "invalid"
    /\ lastCheck["email"] = "none"
    /\ invalidFields = <<"name", "password">>

\* the rules of the field validator contract as C7 words them
violatesContract(field) ==
    CASE field = "name" -> Len(Trim(name)) < MinNameLength
      [] field = "email" -> ~EmailRegexTest(email)
      [] field = "password" -> Len(password) < MinPasswordLength
      [] field = "confirmPassword" ->
             Len(passwordConfirm) < MinPasswordLength \/ passwordConfirm # password

\* C7 as stated: right after validateForm(f), f is in invalidFields exactly
\* when it violates its rule of the contract (confirmation: shorter than 6
\* characters or different from the password; email: the value as typed does
\* not match the pattern).
C7_AsStated ==
    \A f \in Fields :
        afterValidateForm(f) => (Includes(invalidFields, f) <=> violatesContract(f))

\* the rules the four validators apply
violatesValidator(field) ==
    CASE field = "name" -> Len(Trim(name)) < MinNameLength
      [] field = "email" -> ~EmailRegexTest(ToLowerCase(Trim(email)))
      [] field = "password" -> Len(password) < MinPasswordLength
      [] field = "confirmPassword" -> passwordConfirm # password

\* C7 amended: right after validateForm(f), f is in invalidFields exactly when
\* name has fewer than 2 trimmed characters; email, trimmed and lower-cased,
\* does not match the pattern; password has fewer than 6 characters;
\* confirmation differs from password (its length is not checked here).
C7_ValidatorRules ==
    \A f \in Fields :
        afterValidateForm(f) => (Includes(invalidFields, f) <=> violatesValidator(f))

\* a confirmation shorter than 6 characters that equals the password is
\* checked and not listed
C7_Witness ==
    /\ afterValidateForm("confirmPassword")
    /\ passwordConfirm = password
    /\ passwordConfirm # <<>>
    /\ Len(passwordConfirm) < MinPasswordLength
    /\ lastCheck["confirmPassword"] = "valid"
    /\ ~Includes(invalidFields, "confirmPassword")

\* C8: right after validateForm('password') with a non-empty confirmation
\* field, 'confirmPassword' is in invalidFields exactly when passwordConfirm
\* differs from password.
C8_PasswordRevalidatesConfirmation ==
    (afterValidateForm("password") /\ passwordConfirm # <<>>)
        => (Includes(invalidFields, "confirmPassword") <=> passwordConfirm # password)

\* C2: right after validateForm(field) or validatePrivacy(), showPrivacyError
\* is true only if the checkbox is unchecked and every field is valid: name,
\* email, both password lengths, and confirmation equal to password.
C2_PrivacyErrorOnlyWhenAllValid ==
    (op.name \in {"validateForm", "validatePrivacy"} /\ showPrivacyError)
        => /\ ~privacyAccepted
           /\ Len(Trim(name)) >= MinNameLength
           /\ EmailRegexTest(email)
           /\ Len(password) >= MinPasswordLength
           /\ Len(passwordConfirm) >= MinPasswordLength
           /\ passwordConfirm = password

----------------------------------------------------------------------------
(* Properties of the password visibility flags (SpecVisibility).           *)

entered(field) ==
    IF field = "password" THEN passwordEntered ELSE confirmPasswordEntered

visible(field) ==
    IF field = "password" THEN passwordVisible ELSE confirmPasswordVisible

typed(field) == IF field = "password" THEN password ELSE passwordConfirm

\* C10: a visible field has its entered-flag set; togglePasswordVisibility
\* changes nothing when the entered-flag is false; onPasswordInput on an
\* emptied field leaves that field hidden and not entered.
C10_VisibleImpliesEntered ==
    /\ [](\A f \in PasswordFields :
            /\ visible(f) => entered(f)
            /\ (op.name = "onPasswordInput" /\ op.field = f /\ typed(f) = <<>>)
                   => (~visible(f) /\ ~entered(f)))
    /\ [][\A f \in PasswordFields :
            (op'.name = "togglePasswordVisibility" /\ op'.field = f /\ ~entered(f))
                => UNCHANGED <<formVars, validationVars, visibilityVars,
                                serviceVars, registerVars>>]_vars

\* the password was shown, then emptied, and onPasswordInput has hidden it
\* while the confirmation is still shown
C10_Witness ==
    /\ op.name = "onPasswordInput" /\ op.field = "password"
    /\ password = <<>>
    /\ ~passwordVisible /\ ~passwordEntered
    /\ confirmPasswordVisible /\ confirmPasswordEntered

----------------------------------------------------------------------------
(* Properties of onRegister (SpecRegister, SpecRegisterEdits).             *)

\* position of the first event named opName among what invocation i did, or 0
Pos(i, opName) ==
    IF \E k \in 1..Len(calls[i]) : calls[i][k].op = opName
    THEN CHOOSE k \in 1..Len(calls[i]) :
             /\ calls[i][k].op = opName
             /\ \A j \in 1..(k - 1) : calls[i][j].op # opName
    ELSE 0

Did(i, opName) == Pos(i, opName) > 0

Times(i, opName) == Cardinality({k \in 1..Len(calls[i]) : calls[i][k].op = opName})

invokedWithMismatch(i) ==
    atInvoke[i] # None /\ atInvoke[i].password # atInvoke[i].passwordConfirm

\* C1: an onRegister invoked while password differs from passwordConfirm ends
\* at once, calls none of register, addContact, navigate and show, and leaves
\* error (and every collaborator) as it was.
C1_MismatchBlocksSubmission ==
    /\ [](\A i \in Invocations :
            invokedWithMismatch(i) => (calls[i] = <<>> /\ pc[i] = "done"))
    /\ [][\A i \in Invocations :
            (pc[i] = "idle" /\ pc'[i] # "idle" /\ password # passwordConfirm)
                => (calls'[i] = <<>> /\ pc'[i] = "done" /\ UNCHANGED serviceVars)]_vars

\* a mismatching invocation is over with name and email filled in, while
\* another invocation made with equal passwords has registered
C1_Witness ==
    \E i, j \in Invocations :
        /\ invokedWithMismatch(i) /\ pc[i] = "done"
        /\ atInvoke[i].password # <<>>
        /\ email # <<>>
        /\ Did(j, "register")

duplicateAtResolve(i) ==
    \E k \in 1..Len(atResolve[i].contactList) :
        atResolve[i].contactList[k].email = atResolve[i].email

\* C4: once register has resolved, addContact is called exactly when the
\* contact list held no contact with the component's email at that moment;
\* with such a contact the invocation makes no contact write and still
\* navigates to /login and shows the success notice.
C4_DuplicateSuppressesContactWrite ==
    \A i \in Invocations :
        atResolve[i] # None =>
            /\ Did(i, "registerResolved")
            /\ Did(i, "addContact") <=> ~duplicateAtResolve(i)
            /\ duplicateAtResolve(i) =>
                   /\ pc[i] = "done"
                   /\ Did(i, "navigate")
                   /\ calls[i][Pos(i, "navigate")].path = <<"/login">>
                   /\ Did(i, "show")
                   /\ calls[i][Pos(i, "show")].message = "Registration successful"

\* one invocation skipped the contact write, another one made it
C4_Witness ==
    \E i, j \in Invocations :
        /\ atResolve[i] # None /\ duplicateAtResolve(i)
        /\ pc[i] = "done" /\ ~Did(i, "addContact")
        /\ atResolve[j] # None /\ ~duplicateAtResolve(j) /\ Did(j, "addContact")

\* C5: when register throws, error becomes the thrown message, and the
\* invocation ends having called register once and nothing else: no
\* addContact, no UserLoggedIn, no navigation, no success notice.
C5_RegisterFailure ==
    /\ [](\A i \in Invocations :
            Did(i, "registerRejected") =>
                /\ pc[i] = "done"
                /\ Len(calls[i]) = 3
                /\ calls[i][1].op = "register"
                /\ calls[i][2].op = "registerRejected"
                /\ calls[i][3] = [op |-> "setError", message |-> calls[i][2].message])
    /\ [][\A i \in Invocations :
            (pc[i] = "awaitRegister" /\ pc'[i] = "done"
                 /\ calls'[i][2].op = "registerRejected")
                => /\ error' = calls'[i][2].message
                   /\ UNCHANGED <<contactList, UserLoggedIn, route, feedback>>]_vars

\* register threw after an earlier invocation had succeeded
C5_Witness ==
    \E i, j \in Invocations :
        /\ Did(i, "registerRejected")
        /\ error = calls[i][2].message
        /\ Did(j, "show")
        /\ route = <<"/login">>

\* C6: within one invocation: register called, register resolved, addContact
\* called (unless skipped), addContact resolved, navigate(['/login']), success
\* notice, in that order and each at most once; no navigation or notice before
\* every awaited call of the invocation has resolved; when addContact throws
\* there is no navigation and no notice, and error is set to the message.
C6_OrderOfEvents ==
    /\ [](\A i \in Invocations :
            /\ \A o \in {"register", "registerResolved", "addContact",
                         "addContactResolved", "navigate", "show"} : Times(i, o) <= 1
            /\ calls[i] # <<>> => Pos(i, "register") = 1
            /\ Did(i, "addContact") =>
                   (Did(i, "registerResolved")
                        /\ Pos(i, "registerResolved") < Pos(i, "addContact"))
            /\ Did(i, "addContactResolved") =>
                   (Did(i, "addContact")
                        /\ Pos(i, "addContact") < Pos(i, "addContactResolved"))
            /\ Did(i, "navigate") =>
                   /\ Did(i, "registerResolved")
                   /\ Pos(i, "registerResolved") < Pos(i, "navigate")
                   /\ Did(i, "addContact") =>
                          (Did(i, "addContactResolved")
                               /\ Pos(i, "addContactResolved") < Pos(i, "navigate"))
                   /\ calls[i][Pos(i, "navigate")].path = <<"/login">>
            /\ Did(i, "show") =>
                   /\ Did(i, "navigate")
                   /\ Pos(i, "navigate") < Pos(i, "show")
                   /\ calls[i][Pos(i, "show")].message = "Registration successful"
            /\ Did(i, "addContactRejected") =>
                   /\ ~Did(i, "navigate") /\ ~Did(i, "show")
                   /\ pc[i] = "done"
                   /\ Pos(i, "setError") = Pos(i, "addContactRejected") + 1
                   /\ calls[i][Pos(i, "setError")].message
                          = calls[i][Pos(i, "addContactRejected")].message)
    /\ [][\A i \in Invocations :
            (pc[i] = "awaitAddContact" /\ pc'[i] = "done")
                => \/ /\ calls'[i][Len(calls'[i])].op = "show"
                      /\ route' = <<"/login">>
                      /\ feedback' = "Registration successful"
                      /\ error' = error
                   \/ /\ calls'[i][Len(calls'[i])].op = "setError"
                      /\ error' = calls'[i][Len(calls'[i]) - 1].message
                      /\ UNCHANGED <<route, feedback, UserLoggedIn>>]_vars

\* one invocation went through both awaits to the notice, another one had its
\* contact write rejected
C6_Witness ==
    \E i, j \in Invocations :
        /\ pc[i] = "done" /\ Did(i, "addContactResolved") /\ Did(i, "show")
        /\ Len(calls[i]) = 7
        /\ Did(j, "addContactRejected")

\* C9: the contact handed to addContact carries the email and the name that
\* the same invocation handed to register, and the duplicate check is made
\* against that email.
C9_ContactMatchesRegistration ==
    \A i \in Invocations :
        /\ atResolve[i] # None => atResolve[i].email = calls[i][1].email
        /\ Did(i, "addContact") =>
               /\ calls[i][Pos(i, "addContact")].contact.email = calls[i][1].email
               /\ calls[i][Pos(i, "addContact")].contact.name = calls[i][1].name

====
